---- MODULE Spec2Model ----
(***************************************************************************)
(* Semantic code-chunk retrieval of CodeAnalyzer.file_embedding_similar    *)
(* (src/AI/code_analyzer.py): the Chunker loop, the embedding index build, *)
(* the index cache and the similarity scan; with the cached helpers of     *)
(* CodeAnalyzer, the Gemini call, the commit caches (src/AI/setting.py)    *)
(* and the conversation history (src/AI/chat/chatting_repo.py).            *)
(*                                                                         *)
(* The specifications of the module:                                       *)
(*   SpecChunk   the Chunker loop (lines 249-273) stepped line by line     *)
(*               over one file text;                                       *)
(*   Spec        one caller of file_embedding_similar, stepped from await  *)
(*               to await, against a repository and a cache entry;         *)
(*   SpecPair    two callers for the same (owner, repo, branch), their     *)
(*               steps interleaved at the awaits;                          *)
(*   SpecHelpers the three cached helper methods of CodeAnalyzer;          *)
(*   SpecGemini  generate_gemini_content under its retry decorator;        *)
(*   SpecCommits two callers of get_commit_number_and_list;                *)
(*   SpecChat    two requests of chat_with_repo and their history.         *)
(***************************************************************************)
EXTENDS Integers, Sequences, FiniteSets, TLC

VARIABLES
    \* ---- the Chunker loop (SpecChunk) ----
    temp,              \* decoded_text.split("\n"): the lines of the file
    nl_tokens,         \* tokens the tokenizer adds for a trailing "\n"
    index,             \* loop index of enumerate(temp), 0-based as in the code
    sum_tokens,        \* running token count
    embedding_text,    \* lines of the chunk being accumulated (0-based positions)
    embedding_list,    \* chunks closed so far, in order
    seed_lines,        \* how many leading lines of embedding_text are an overlap seed
    chunk_pc,          \* "loop" | "done", "off" under Spec
    \* ---- one call of file_embedding_similar (Spec) ----
    access_token,      \* TRUE iff self.access_token is set
    redis_client,      \* TRUE iff a cache backend is configured
    repo,              \* path -> file text (its lines) or Absent: the branch snapshot
    default_branch,    \* TRUE iff branch_name is the repository's default branch
    head,              \* path -> file text or Absent on the default branch
    cache,             \* the entry under cache_key_embedding_filelist, or NoEntry
    pc,                \* position of the call
    todo,              \* file_paths still to visit in the build loop
    content_embedding, \* the index: entries [name, vecs] in insertion order
    question_embedding, \* embedding of the expanded question, or NoVector
    readme_content,    \* grounding text of the prompt: the README answer, or empty
    max_filename,      \* result of the similarity scan
    result,            \* value returned to the caller
    error,             \* which except clause ran: "none" | "http" | "unexpected"
    raised,            \* TRUE iff an exception left the method
    requests,          \* source-control requests made by the current call
    index_source,      \* where the call's index comes from: "none" | "cache" | "built"
    embeds,            \* chunk embeddings computed by the current call
    fault,             \* the operation whose exception ended the call, or "none"
    other,             \* the locals of the caller that is not running (SpecPair)
    \* ---- _get_latest_commit_sha, get_all_py_files, get_files_content (SpecHelpers) ----
    method,            \* the method called, or "none"
    hpc,               \* position of the call
    latest_commit_sha, \* self.latest_commit_sha, "" for None
    commit_sha_to_use, \* get_files_content: ref, or the latest commit SHA
    store,             \* the cache entries of the three methods
    file_paths,        \* get_files_content: the paths asked for
    paths_todo,        \* file_paths still to visit
    files_content_map, \* get_files_content: <<path, content>> in insertion order
    returned,          \* value returned to the caller
    escaped,           \* TRUE iff an exception left the method
    cache_faults,      \* cache operations that raised during the call
    fetch_faults,      \* GitHub requests of the call that raised or answered an error
    \* ---- generate_gemini_content under retry_on_quota_exceeded (SpecGemini) ----
    gpc,               \* position of the call
    attempt_number,    \* retry_state.attempt_number
    attempts,          \* outcome of each attempt made so far, in order
    gen_result,        \* what generate_gemini_content gives its caller
    response,          \* what chat_with_repo gives the HTTP client
    \* ---- get_commit_number_and_list, two callers (SpecCommits) ----
    repo_commits,      \* the SHAs of the repository's commits, newest first
    commit_number_cache, \* the entry of cache_key: [present, value]
    commit_data_cache, \* the entry of cache_key: [present, value]
    cpc,               \* position of the running caller
    all_commits_fetched, \* its local list
    page,              \* its page counter
    commits_result,    \* what the call gave its caller
    peer,              \* the locals of the caller that is not running
    \* ---- chat_with_repo and conversation_history, two requests (SpecChat) ----
    conversation_history, \* history_key -> [present, value]
    asked,             \* number of requests received so far
    answered,          \* history_key -> the requests whose answer was generated
    chat_pc,           \* position of the running request
    question,          \* its question, told apart by the request's number
    history_key,       \* its history key
    seen,              \* the entry as lines 274-276 read it
    history_for_prompt, \* the pairs put in its prompt
    chat_attempt,      \* attempts of generate_content made for it
    chat_reply,        \* what the request gave its client
    chat_peer          \* the locals of the request that is not running

chunkVars == <<temp, nl_tokens, index, sum_tokens, embedding_text, embedding_list,
               seed_lines, chunk_pc>>
callVars == <<access_token, redis_client, repo, default_branch, head, cache, pc, todo,
              content_embedding, question_embedding, readme_content, max_filename,
              result, error, raised, requests, index_source, embeds, fault, other>>
helperVars == <<method, hpc, latest_commit_sha, commit_sha_to_use, store, file_paths,
                paths_todo, files_content_map, returned, escaped, cache_faults, fetch_faults>>
\* the variables of the components other than file_embedding_similar
geminiVars == <<gpc, attempt_number, attempts, gen_result, response>>
commitVars == <<repo_commits, commit_number_cache, commit_data_cache, cpc,
                all_commits_fetched, page, commits_result, peer>>
chatVars == <<conversation_history, asked, answered, chat_pc, question, history_key,
              seen, history_for_prompt, chat_attempt, chat_reply, chat_peer>>
sideVars == <<helperVars, geminiVars, commitVars, chatVars>>
vars == <<temp, nl_tokens, index, sum_tokens, embedding_text, embedding_list,
          seed_lines, chunk_pc, access_token, redis_client, repo, default_branch, head,
          cache, pc, todo, content_embedding, question_embedding, readme_content,
          max_filename, result, error, raised, requests, index_source, embeds, fault,
          other, sideVars>>

----------------------------------------------------------------------------
(* Program constants                                                        *)

CHUNK_TOKEN == 512
overlap_part == 10

(* Bounds of the model                                                      *)

\* longest file body (lines before an optional final empty line)
MaxLines == 13
\* most over-long lines in one file body
MaxBig == 2

----------------------------------------------------------------------------
(* The tokenizer and the embedder, on the line kinds of the model           *)

\* "" an empty line, "stmt"/"note"/"both"/"anti" short lines, "blob" one over-long line
LineKinds == {"", "stmt", "note", "both", "anti", "blob"}

\* len(tokenizer.encode(i)): special tokens included
TokenCount(line) ==
    CASE line = "" -> 2
      [] line = "blob" -> 600
      [] OTHER -> 45

\* len(tokenizer.encode(temp[index - j] + "\n"))
TokenCountNl(line, nl) == TokenCount(line) + nl

RECURSIVE SumTokens(_, _)
\* tokenizer-measured size of a chunk: the per-line counts of its lines
SumTokens(lines, text) ==
    IF text = <<>> THEN 0
    ELSE TokenCount(lines[Head(text) + 1]) + SumTokens(lines, Tail(text))

----------------------------------------------------------------------------
(* The Chunker loop, lines 249-273                                          *)

\* line 256: the line joins the chunk only while the running count is below budget
FitsBudget(sum) == sum < CHUNK_TOKEN

\* line 258 with the last-line disjunct dropped
CloseChunkNoLast(sum, i, n) == sum >= CHUNK_TOKEN

\* line 258: close on budget or on the last line
CloseChunk(sum, i, n) == sum >= CHUNK_TOKEN \/ i = n - 1

\* line 262: the new chunk is seeded only from this position on
Reseed(i) == i >= overlap_part

\* lines 265-271: temp[index - j] for j = 0 .. overlap_part-1, in that order
SeedPositions(i) == [j \in 1..overlap_part |-> i - (j - 1)]

RECURSIVE SeedTokens(_, _, _)
\* lines 266-268: the seed re-tokenized, each line with its "\n"
SeedTokens(lines, seed, nl) ==
    IF seed = <<>> THEN 0
    ELSE TokenCountNl(lines[Head(seed) + 1], nl) + SeedTokens(lines, Tail(seed), nl)

\* state of the loop before its first iteration, lines 251-253
ChunkStart ==
    [index |-> 0, sum_tokens |-> 0, embedding_text |-> <<>>,
     embedding_list |-> <<>>, seed_lines |-> 0]

\* one iteration of the for loop, lines 254-271
ChunkLine(st, lines, nl) ==
    LET i == st.index
        sum1 == st.sum_tokens + TokenCount(lines[i + 1])
        text1 == IF FitsBudget(sum1) THEN Append(st.embedding_text, i)
                 ELSE st.embedding_text
        close == CloseChunk(sum1, i, Len(lines))
        list1 == IF close
                 THEN Append(st.embedding_list,
                             [text |-> text1, at |-> i, seed |-> st.seed_lines])
                 ELSE st.embedding_list
        reseed == close /\ Reseed(i)
    IN [index |-> i + 1,
        sum_tokens |-> IF reseed THEN SeedTokens(lines, SeedPositions(i), nl) ELSE sum1,
        embedding_text |-> IF reseed THEN SeedPositions(i) ELSE text1,
        embedding_list |-> list1,
        seed_lines |-> IF reseed THEN overlap_part ELSE st.seed_lines]

RECURSIVE ChunkFrom(_, _, _)
ChunkFrom(st, lines, nl) ==
    IF st.index = Len(lines) THEN st.embedding_list
    ELSE ChunkFrom(ChunkLine(st, lines, nl), lines, nl)

\* the whole loop over one file: the chunks it closes, in order
Chunker(lines, nl) == ChunkFrom(ChunkStart, lines, nl)

----------------------------------------------------------------------------
(* SpecChunk: the loop stepped over one file text                           *)

\* file bodies: short and over-long lines, at most MaxBig over-long ones
Bodies ==
    UNION {{f \in [1..n -> {"stmt", "blob"}] :
                Cardinality({k \in 1..n : f[k] = "blob"}) <= MaxBig} : n \in 0..MaxLines}

\* text.split("\n"): a text with k newlines has k+1 lines; the empty text is
\* the single empty line, a text ending in "\n" has a final empty line
FileTexts == {b \in Bodies : Len(b) > 0} \cup {Append(b, "") : b \in Bodies}

\* values that stand for "nothing": no file at a path, no cache entry, Python's None
Absent == <<>>
NoEntry == [present |-> FALSE, doc |-> <<>>]
NoVector == <<>>
None == <<>>

\* the locals of a caller that has not started (lines 172-187)
IdleLocals ==
    [pc |-> "idle", todo |-> <<>>, content_embedding |-> <<>>,
     question_embedding |-> NoVector, readme_content |-> <<>>,
     max_filename |-> "", result |-> None,
     error |-> "none", raised |-> FALSE, requests |-> {}, index_source |-> "none",
     embeds |-> 0, fault |-> "none"]

\* the three helper methods before any call: a fresh instance, an empty cache
HelpersIdle ==
    /\ method = "none" /\ hpc = "idle"
    /\ latest_commit_sha = "" /\ commit_sha_to_use = ""
    /\ store = [sha |-> "", files |-> NoEntry, content |-> {}]
    /\ file_paths = <<>> /\ paths_todo = <<>> /\ files_content_map = <<>>
    /\ returned = None /\ escaped = FALSE
    /\ cache_faults = 0 /\ fetch_faults = {}

\* generate_gemini_content before any call
NoOutcome == [kind |-> "none", status |-> 0, retry_after |-> 0]

GeminiIdle ==
    /\ gpc = "idle" /\ attempt_number = 0 /\ attempts = <<>>
    /\ gen_result = NoOutcome /\ response = NoOutcome

\* a cache key that is not in the dict
NoKey == [present |-> FALSE, value |-> <<>>]

\* the locals of a caller of get_commit_number_and_list that has not started
CommitLocalsIdle ==
    [cpc |-> "idle", all_commits_fetched |-> <<>>, page |-> 0,
     commits_result |-> [kind |-> "none", map |-> <<>>, list |-> <<>>, fetched |-> FALSE]]

\* setting.py lines 26-27: both caches start empty
CommitsIdle ==
    /\ repo_commits = <<>>
    /\ commit_number_cache = NoKey /\ commit_data_cache = NoKey
    /\ cpc = CommitLocalsIdle.cpc
    /\ all_commits_fetched = CommitLocalsIdle.all_commits_fetched
    /\ page = CommitLocalsIdle.page
    /\ commits_result = CommitLocalsIdle.commits_result
    /\ peer = CommitLocalsIdle

\* owner/repo/access_token[:10] of the requests of the model
HistoryKeys == {"o/r/token_A", "o/r/token_B"}

\* the locals of a chat_with_repo request that has not arrived
ChatLocalsIdle ==
    [chat_pc |-> "idle", question |-> 0, history_key |-> "", seen |-> <<>>,
     history_for_prompt |-> <<>>, chat_attempt |-> 0, chat_reply |-> "none"]

\* the request locals of the model, before any request
ChatLocalsOff ==
    /\ chat_pc = ChatLocalsIdle.chat_pc
    /\ question = ChatLocalsIdle.question
    /\ history_key = ChatLocalsIdle.history_key
    /\ seen = ChatLocalsIdle.seen
    /\ history_for_prompt = ChatLocalsIdle.history_for_prompt
    /\ chat_attempt = ChatLocalsIdle.chat_attempt
    /\ chat_reply = ChatLocalsIdle.chat_reply
    /\ chat_peer = ChatLocalsIdle

\* setting.py line 25: conversation_history starts empty
ChatIdle ==
    /\ conversation_history = [k \in HistoryKeys |-> NoKey]
    /\ asked = 0
    /\ answered = [k \in HistoryKeys |-> {}]
    /\ ChatLocalsOff

\* the components other than file_embedding_similar, before any call
SideIdle == HelpersIdle /\ GeminiIdle /\ CommitsIdle /\ ChatIdle

\* the variables of file_embedding_similar while it is not called
CallOff ==
    /\ access_token = TRUE
    /\ repo = <<>> /\ default_branch = TRUE /\ head = <<>>
    /\ cache = NoEntry /\ pc = "off" /\ todo = <<>>
    /\ content_embedding = <<>> /\ question_embedding = NoVector
    /\ readme_content = <<>>
    /\ max_filename = "" /\ result = None
    /\ error = "none" /\ raised = FALSE /\ requests = {}
    /\ index_source = "none" /\ embeds = 0 /\ fault = "none"
    /\ other = IdleLocals

\* the call's variables while only the Chunker is stepped
CallIdle == redis_client = TRUE /\ CallOff

InitChunk ==
    /\ temp \in FileTexts
    /\ nl_tokens \in 0..1
    /\ index = ChunkStart.index
    /\ sum_tokens = ChunkStart.sum_tokens
    /\ embedding_text = ChunkStart.embedding_text
    /\ embedding_list = ChunkStart.embedding_list
    /\ seed_lines = ChunkStart.seed_lines
    /\ chunk_pc = "loop"
    /\ CallIdle
    /\ SideIdle

\* one iteration of `for index, i in enumerate(temp)`
ChunkerLine ==
    /\ chunk_pc = "loop"
    /\ index < Len(temp)
    /\ LET st == ChunkLine([index |-> index, sum_tokens |-> sum_tokens,
                            embedding_text |-> embedding_text,
                            embedding_list |-> embedding_list,
                            seed_lines |-> seed_lines], temp, nl_tokens)
       IN /\ index' = st.index
          /\ sum_tokens' = st.sum_tokens
          /\ embedding_text' = st.embedding_text
          /\ embedding_list' = st.embedding_list
          /\ seed_lines' = st.seed_lines
    /\ UNCHANGED <<temp, nl_tokens, chunk_pc>>
    /\ UNCHANGED <<callVars, sideVars>>

\* line 273: the loop is over, embedding_list is stored under the path
ChunkerReturn ==
    /\ chunk_pc = "loop"
    /\ index = Len(temp)
    /\ chunk_pc' = "done"
    /\ UNCHANGED <<temp, nl_tokens, index, sum_tokens, embedding_text,
                   embedding_list, seed_lines>>
    /\ UNCHANGED <<callVars, sideVars>>

NextChunk == ChunkerLine \/ ChunkerReturn

SpecChunk == InitChunk /\ [][NextChunk]_vars

----------------------------------------------------------------------------
(* The embedder and the similarity scan                                     *)

\* direction each line kind contributes to the mean-pooled embedding
LineVec(line) ==
    CASE line = "stmt" -> <<1, 0>>
      [] line = "note" -> <<0, 1>>
      [] line = "blob" -> <<0, 1>>
      [] line = "both" -> <<9, 1>>
      [] line = "anti" -> <<-1, 0>>
      [] OTHER -> <<0, 0>>

RECURSIVE VecSum(_, _)
VecSum(lines, text) ==
    IF text = <<>> THEN <<0, 0>>
    ELSE LET v == LineVec(lines[Head(text) + 1])
             r == VecSum(lines, Tail(text))
         IN <<v[1] + r[1], v[2] + r[2]>>

\* embedding_function(embedding_text): a pure function of the chunk's text;
\* a text without content embeds to the vector of the special tokens alone.
\* Vectors are kept as integer directions; the L2 normalisation of line 23
\* does not change a cosine.
embedding_function(lines, text) ==
    LET v == VecSum(lines, text)
    IN IF v = <<0, 0>> THEN <<1, 1>> ELSE v

\* lines 249-273 for one file: the vectors of its chunks, in order
EmbedFile(lines, nl) ==
    LET chunks == Chunker(lines, nl)
    IN [k \in 1..Len(chunks) |-> embedding_function(lines, chunks[k].text)]

Dot(q, v) == q[1] * v[1] + q[2] * v[2]

\* cosine_similarity(q, v) up to the positive factor 1/|q|: num / sqrt(den2);
\* a zero vector has similarity 0
Similar(q, v) ==
    IF Dot(v, v) = 0 THEN [num |-> 0, den2 |-> 1]
    ELSE [num |-> Dot(q, v), den2 |-> Dot(v, v)]

\* a.num / sqrt(a.den2) > b.num / sqrt(b.den2)
Greater(a, b) ==
    IF a.num >= 0 /\ b.num < 0 THEN TRUE
    ELSE IF a.num < 0 /\ b.num >= 0 THEN FALSE
    ELSE IF a.num >= 0
         THEN a.num * a.num * b.den2 > b.num * b.num * a.den2
         ELSE a.num * a.num * b.den2 < b.num * b.num * a.den2

\* a.num / sqrt(a.den2) >= b.num / sqrt(b.den2)
AtLeast(a, b) == ~Greater(b, a)

RECURSIVE Flatten(_)
\* lines 323-328: reduce_text and file_labels, in the index's iteration order
Flatten(ix) ==
    IF ix = <<>> THEN <<>>
    ELSE [k \in 1..Len(Head(ix).vecs) |->
              [vec |-> Head(ix).vecs[k], label |-> Head(ix).name]]
         \o Flatten(Tail(ix))

\* line 341: the running maximum is replaced on a strictly greater similarity
ReplacesMax(similar, max_similar) == Greater(similar, max_similar)

\* lines 333-334
ScanStart == [max_similar |-> [num |-> 0, den2 |-> 1], max_filename |-> ""]

RECURSIVE ScanFrom(_, _, _)
\* lines 335-343
ScanFrom(acc, q, flat) ==
    IF flat = <<>> THEN acc
    ELSE LET similar == Similar(q, Head(flat).vec)
         IN ScanFrom(IF ReplacesMax(similar, acc.max_similar)
                     THEN [max_similar |-> similar, max_filename |-> Head(flat).label]
                     ELSE acc,
                     q, Tail(flat))

\* lines 323-346: the file the scan selects for query vector q
SimilarityScan(ix, q) == ScanFrom(ScanStart, q, Flatten(ix)).max_filename

----------------------------------------------------------------------------
(* The repository snapshot and the cache entry                              *)

\* blob paths of the model, in the order the tree request lists them
TreePaths == <<"README.md", "a.py", "b.py", "c.py", "docs/README.md", "logo.png">>

\* the file texts a path may hold
MixedText ==
    <<"stmt", "stmt", "stmt", "stmt", "stmt", "stmt", "stmt", "stmt", "stmt", "stmt",
      "stmt", "blob", "stmt">>

Contents(path) ==
    CASE path = "a.py" -> {Absent, <<"stmt">>, <<"anti">>, <<"">>, <<"blob">>, MixedText}
      [] path = "b.py" -> {Absent, <<"note">>, <<"stmt">>}
      [] path = "c.py" -> {Absent, <<"both">>}
      [] OTHER -> {Absent, <<"stmt">>}

PathSet == {TreePaths[k] : k \in 1..Len(TreePaths)}

Repos == {r \in [PathSet -> UNION {Contents(p) : p \in PathSet}] :
              \A p \in PathSet : r[p] \in Contents(p)}

\* embeddings an expanded question may have
QueryVecs == {<<1, 0>>, <<0, 1>>, <<-1, 0>>, <<0, -1>>}

\* item["path"].endswith(suffix), on the paths of the model
EndsWith(path, suffix) == path = "logo.png" /\ suffix = "png"

\* lines 223-232: blobs whose path does not end in png, jpg or jpeg
Listed(path) ==
    ~(EndsWith(path, "png") \/ EndsWith(path, "jpg") \/ EndsWith(path, "jpeg"))

RECURSIVE SelectPaths(_, _)
SelectPaths(paths, r) ==
    IF paths = <<>> THEN <<>>
    ELSE (IF r[Head(paths)] # Absent /\ Listed(Head(paths))
          THEN <<Head(paths)>> ELSE <<>>) \o SelectPaths(Tail(paths), r)

\* file_paths of lines 223-232 for snapshot r
FilePaths(r) == SelectPaths(TreePaths, r)

\* line 236
Excluded(path) == path = "README.md" \/ path = ".env"

\* lines 275-282 with every vector list cut to its first vector
SerializeFirstChunk(ix) ==
    [k \in 1..Len(ix) |->
        <<ix[k].name, IF ix[k].vecs = <<>> THEN <<>> ELSE <<ix[k].vecs[1]>> >>]

\* lines 275-282: json.dumps of {name: array.tolist()}, key order kept
Serialize(ix) == [k \in 1..Len(ix) |-> <<ix[k].name, ix[k].vecs>>]

\* lines 194-198: json.loads and {name: numpy.array(vec)}
Deserialize(doc) == [k \in 1..Len(doc) |-> [name |-> doc[k][1], vecs |-> doc[k][2]]]

\* a cached value that is not the JSON of an index
Garbage == <<<<"not an index">>>>

\* lines 194-198 succeed on the value: it is an object of name/array pairs
Parses(doc) == \A k \in 1..Len(doc) : Len(doc[k]) = 2

\* the text a commit leaves in an edited file
Edited(text) == IF text = <<"stmt">> THEN <<"anti">> ELSE <<"stmt">>

\* what the default branch may hold when branch_name is another branch:
\* a.py differs, or is not there
OtherHeads(r) ==
    {[r EXCEPT !["a.py"] = t] : t \in {Absent, Edited(r["a.py"])} \ {r["a.py"]}}

\* lines 357-361 with only HTTPStatusError caught
CatchHttpOnly(kind) ==
    [error |-> IF kind = "http" THEN "http" ELSE "none", raised |-> kind # "http"]

\* lines 357-361: both except clauses print and fall off the end of the method
Catch(kind) == [error |-> kind, raised |-> FALSE]

----------------------------------------------------------------------------
(* Spec: one caller of file_embedding_similar, from await to await          *)

InitCall ==
    /\ temp = <<>> /\ nl_tokens \in 0..1
    /\ index = ChunkStart.index /\ sum_tokens = ChunkStart.sum_tokens
    /\ embedding_text = <<>> /\ embedding_list = <<>>
    /\ seed_lines = ChunkStart.seed_lines /\ chunk_pc = "off"
    /\ access_token \in BOOLEAN
    /\ redis_client \in BOOLEAN
    /\ repo \in Repos
    /\ default_branch \in BOOLEAN
    /\ head \in IF default_branch THEN {repo} ELSE OtherHeads(repo)
    /\ cache = NoEntry
    /\ pc = "idle"
    /\ todo = <<>>
    /\ content_embedding = <<>>
    /\ question_embedding = NoVector
    /\ readme_content = <<>>
    /\ max_filename = ""
    /\ result = None
    /\ error = "none"
    /\ raised = FALSE
    /\ requests = {}
    /\ index_source = "none"
    /\ embeds = 0
    /\ fault = "none"
    /\ other = IdleLocals
    /\ SideIdle

Init == InitCall

\* what no step of a call changes
Fixed == UNCHANGED <<temp, nl_tokens, index, sum_tokens, embedding_text,
                     embedding_list, seed_lines, chunk_pc, access_token,
                     redis_client, repo, default_branch, head, other, sideVars>>

\* how an awaited request can fail: an error status, or any other exception
FailKinds == {"http", "unexpected"}

Request(kind, path) == [kind |-> kind, path |-> path]

\* an exception raised by operation op inside the try block, lines 357-361
Raise(kind, op) ==
    /\ error' = Catch(kind).error
    /\ raised' = Catch(kind).raised
    /\ result' = None
    /\ fault' = op
    /\ pc' = "done"

\* a call starts: its locals are fresh (lines 172-187)
Enter ==
    /\ pc \in {"idle", "done"}
    /\ todo' = <<>>
    /\ question_embedding' = NoVector
    /\ readme_content' = <<>>
    /\ max_filename' = ""
    /\ requests' = {}
    /\ embeds' = 0

\* lines 175-177: no access token, the method returns at once
CallNoToken ==
    /\ Enter
    /\ ~access_token
    /\ content_embedding' = <<>>
    /\ index_source' = "none"
    /\ result' = None /\ error' = "none" /\ raised' = FALSE /\ fault' = "none"
    /\ pc' = "done"
    /\ UNCHANGED cache
    /\ Fixed

\* line 189 false: no build, the method goes on to the README request
CallNoCache ==
    /\ Enter
    /\ access_token /\ ~redis_client
    /\ content_embedding' = <<>>
    /\ index_source' = "none"
    /\ result' = None /\ error' = "none" /\ raised' = FALSE /\ fault' = "none"
    /\ pc' = "readme"
    /\ UNCHANGED cache
    /\ Fixed

\* lines 190-198 with the cached value ignored: the build is started anyway
CallCacheHitRebuilds ==
    /\ Enter
    /\ access_token /\ redis_client
    /\ cache.present /\ Parses(cache.doc)
    /\ content_embedding' = Deserialize(cache.doc)
    /\ index_source' = "cache"
    /\ result' = None /\ error' = "none" /\ raised' = FALSE /\ fault' = "none"
    /\ pc' = "branch"
    /\ UNCHANGED cache
    /\ Fixed

\* lines 190-198: the entry is there, the index is read from it
CallCacheHit ==
    /\ Enter
    /\ access_token /\ redis_client
    /\ cache.present /\ Parses(cache.doc)
    /\ content_embedding' = Deserialize(cache.doc)
    /\ index_source' = "cache"
    /\ result' = None /\ error' = "none" /\ raised' = FALSE /\ fault' = "none"
    /\ pc' = "readme"
    /\ UNCHANGED cache
    /\ Fixed

\* lines 194-198: the entry is there but json.loads or numpy.array raises on it
CallCacheMalformed ==
    /\ Enter
    /\ access_token /\ redis_client
    /\ cache.present /\ ~Parses(cache.doc)
    /\ content_embedding' = <<>>
    /\ index_source' = "none"
    /\ Raise("unexpected", "cache_decode")
    /\ UNCHANGED cache
    /\ Fixed

\* lines 190, 200-204: no entry, the branch request is issued
CallCacheMiss ==
    /\ Enter
    /\ access_token /\ redis_client
    /\ ~cache.present
    /\ content_embedding' = <<>>
    /\ index_source' = "built"
    /\ result' = None /\ error' = "none" /\ raised' = FALSE /\ fault' = "none"
    /\ pc' = "branch"
    /\ UNCHANGED cache
    /\ Fixed

\* line 190: redis_client.get raises
CallCacheError ==
    /\ Enter
    /\ access_token /\ redis_client
    /\ content_embedding' = <<>>
    /\ index_source' = "none"
    /\ Raise("unexpected", "cache_get")
    /\ UNCHANGED cache
    /\ Fixed

\* lines 201-220: branch, then commit, then tree answers; after the tree,
\* file_paths is filtered (223-232) and the first content request goes out
ResolveSnapshot ==
    /\ pc \in {"branch", "commit", "tree"}
    /\ requests' = requests \cup {Request(pc, "")}
    /\ pc' = CASE pc = "branch" -> "commit"
               [] pc = "commit" -> "tree"
               [] OTHER -> "files"
    /\ todo' = IF pc = "tree" THEN FilePaths(repo) ELSE todo
    /\ UNCHANGED <<cache, content_embedding, question_embedding, readme_content,
                   max_filename, result, error, raised, index_source, embeds, fault>>
    /\ Fixed

\* lines 205, 212, 219: a snapshot-resolution request fails
ResolveFails ==
    /\ pc \in {"branch", "commit", "tree"}
    /\ requests' = requests \cup {Request(pc, "")}
    /\ \E kind \in FailKinds : Raise(kind, pc)
    /\ UNCHANGED <<cache, todo, content_embedding, question_embedding, readme_content,
                   max_filename, index_source, embeds>>
    /\ Fixed

\* lines 236-237: README.md and .env are passed over
SkipExcluded ==
    /\ pc = "files" /\ todo # <<>>
    /\ Excluded(Head(todo))
    /\ todo' = Tail(todo)
    /\ UNCHANGED <<cache, pc, content_embedding, question_embedding, readme_content,
                   max_filename, result, error, raised, requests, index_source, embeds, fault>>
    /\ Fixed

\* lines 238-273 with the cache written after every file
IndexFileAndStore ==
    /\ pc = "files" /\ todo # <<>>
    /\ ~Excluded(Head(todo))
    /\ head[Head(todo)] # Absent
    /\ requests' = requests \cup {Request("content", Head(todo))}
    /\ LET vecs == EmbedFile(head[Head(todo)], nl_tokens)
       IN /\ content_embedding' =
                 Append(content_embedding, [name |-> Head(todo), vecs |-> vecs])
          /\ embeds' = embeds + Len(vecs)
    /\ cache' = [present |-> TRUE, doc |-> Serialize(content_embedding')]
    /\ todo' = Tail(todo)
    /\ UNCHANGED <<pc, question_embedding, readme_content,
                   max_filename, result, error, raised,
                   index_source, fault>>
    /\ Fixed

\* lines 238-273: the content of one file arrives (contents/{path}, no ref:
\* the default branch), is chunked and embedded
IndexFile ==
    /\ pc = "files" /\ todo # <<>>
    /\ ~Excluded(Head(todo))
    /\ head[Head(todo)] # Absent
    /\ requests' = requests \cup {Request("content", Head(todo))}
    /\ LET vecs == EmbedFile(head[Head(todo)], nl_tokens)
       IN /\ content_embedding' =
                 Append(content_embedding, [name |-> Head(todo), vecs |-> vecs])
          /\ embeds' = embeds + Len(vecs)
    /\ todo' = Tail(todo)
    /\ UNCHANGED <<cache, pc, question_embedding, readme_content,
                   max_filename, result, error, raised,
                   index_source, fault>>
    /\ Fixed

\* line 243: the content request of one file fails
IndexFileFails ==
    /\ pc = "files" /\ todo # <<>>
    /\ ~Excluded(Head(todo))
    /\ requests' = requests \cup {Request("content", Head(todo))}
    /\ \E kind \in FailKinds : Raise(kind, "content")
    /\ UNCHANGED <<cache, todo, content_embedding, question_embedding, readme_content,
                   max_filename, index_source, embeds>>
    /\ Fixed

\* lines 274-283 with the index appended to the value already cached
StoreIndexAppends ==
    /\ pc = "files" /\ todo = <<>>
    /\ cache' = [present |-> TRUE,
                 doc |-> (IF cache.present THEN cache.doc ELSE <<>>)
                             \o Serialize(content_embedding)]
    /\ pc' = "readme"
    /\ UNCHANGED <<todo, content_embedding, question_embedding, readme_content,
                   max_filename, result, error, raised, requests, index_source, embeds, fault>>
    /\ Fixed

\* lines 274-283: every file visited, the index is written to the cache
StoreIndex ==
    /\ pc = "files" /\ todo = <<>>
    /\ cache' = [present |-> TRUE, doc |-> Serialize(content_embedding)]
    /\ pc' = "readme"
    /\ UNCHANGED <<todo, content_embedding, question_embedding, readme_content,
                   max_filename, result, error, raised, requests, index_source, embeds, fault>>
    /\ Fixed

\* line 279: redis_client.set raises
StoreFails ==
    /\ pc = "files" /\ todo = <<>>
    /\ Raise("unexpected", "cache_set")
    /\ UNCHANGED <<cache, todo, content_embedding, question_embedding, readme_content,
                   max_filename, requests, index_source, embeds>>
    /\ Fixed

\* the repos/{owner}/{repo}/readme request (no ref: the default branch) finds
\* a README at the root of the tree or under docs/
ReadmeFound(h) == h["README.md"] # Absent \/ h["docs/README.md"] # Absent

\* lines 289-291: the text of a 200 answer, "" for any other status
ReadmeText(h) ==
    IF ReadmeFound(h)
    THEN (IF h["README.md"] # Absent THEN h["README.md"] ELSE h["docs/README.md"])
    ELSE <<>>

\* lines 285-322 with raise_for_status() called on the README answer
FetchReadmeChecked ==
    /\ pc = "readme"
    /\ requests' = requests \cup {Request("readme", "")}
    /\ IF ReadmeFound(head)
       THEN /\ readme_content' = ReadmeText(head)
            /\ pc' = "expand"
            /\ UNCHANGED <<result, error, raised, fault>>
       ELSE /\ Raise("http", "readme")
            /\ UNCHANGED readme_content
    /\ UNCHANGED <<cache, todo, content_embedding, question_embedding, max_filename,
                   index_source, embeds>>
    /\ Fixed

\* lines 285-322: the README request is answered (200 or any other status),
\* readme_content is set, the prompt is built and goes to the LLM
FetchReadme ==
    /\ pc = "readme"
    /\ requests' = requests \cup {Request("readme", "")}
    /\ readme_content' = ReadmeText(head)
    /\ pc' = "expand"
    /\ UNCHANGED <<cache, todo, content_embedding, question_embedding, max_filename,
                   result, error, raised, index_source, embeds, fault>>
    /\ Fixed

\* line 286: the README request raises
ReadmeFails ==
    /\ pc = "readme"
    /\ requests' = requests \cup {Request("readme", "")}
    /\ Raise("unexpected", "readme")
    /\ UNCHANGED <<cache, todo, content_embedding, question_embedding, readme_content,
                   max_filename, index_source, embeds>>
    /\ Fixed

\* lines 322-349: the expanded question arrives and is embedded, the index is
\* scanned, the content of max_filename is requested
ExpandAndScan ==
    /\ pc = "expand"
    /\ \E q \in QueryVecs :
           /\ question_embedding' = q
           /\ max_filename' = SimilarityScan(content_embedding, q)
    /\ pc' = "fetch"
    /\ UNCHANGED <<cache, todo, content_embedding, readme_content, result, error, raised,
                   requests, index_source, embeds, fault>>
    /\ Fixed

\* line 322: generate_ai_content raises
ExpandFails ==
    /\ pc = "expand"
    /\ Raise("unexpected", "llm")
    /\ UNCHANGED <<cache, todo, content_embedding, question_embedding, readme_content,
                   max_filename, requests, index_source, embeds>>
    /\ Fixed

\* lines 348-355: the selected file's content (contents/{max_filename}, no
\* ref: the default branch) arrives and is returned
ReturnFile ==
    /\ pc = "fetch"
    /\ max_filename # ""
    /\ head[max_filename] # Absent
    /\ requests' = requests \cup {Request("content", max_filename)}
    /\ result' = head[max_filename]
    /\ pc' = "done"
    /\ UNCHANGED <<cache, todo, content_embedding, question_embedding, readme_content,
                   max_filename, error, raised, index_source, embeds, fault>>
    /\ Fixed

\* lines 348-352 with max_filename = "": the request is for contents/ itself.
\* It answers an error status, or the listing of the root directory, and
\* content["content"] on a listing raises TypeError.
ReturnNoFile ==
    /\ pc = "fetch"
    /\ max_filename = ""
    /\ requests' = requests \cup {Request("content", "")}
    /\ \E kind \in FailKinds : Raise(kind, "result")
    /\ UNCHANGED <<cache, todo, content_embedding, question_embedding, readme_content,
                   max_filename, index_source, embeds>>
    /\ Fixed

\* line 350: the request for the selected file fails
ReturnFails ==
    /\ pc = "fetch"
    /\ max_filename # ""
    /\ requests' = requests \cup {Request("content", max_filename)}
    /\ \E kind \in FailKinds : Raise(kind, "result")
    /\ UNCHANGED <<cache, todo, content_embedding, question_embedding, readme_content,
                   max_filename, index_source, embeds>>
    /\ Fixed

\* what the environment leaves alone
Held == UNCHANGED <<temp, nl_tokens, index, sum_tokens, embedding_text, embedding_list,
                    seed_lines, chunk_pc, access_token, redis_client, default_branch,
                    pc, todo, content_embedding, question_embedding, readme_content,
                    max_filename, result, error, raised, requests, index_source,
                    embeds, fault, other, sideVars>>

\* the entry's TTL (CACHE_TTL_SECONDS) runs out
Expire ==
    /\ cache.present
    /\ cache' = NoEntry
    /\ UNCHANGED <<repo, head>>
    /\ Held

\* another writer of the shared cache leaves a value under the key that is
\* not the JSON of an index
CacheCorrupted ==
    /\ redis_client
    /\ cache # [present |-> TRUE, doc |-> Garbage]
    /\ cache' = [present |-> TRUE, doc |-> Garbage]
    /\ UNCHANGED <<repo, head>>
    /\ Held

\* a commit on the requested branch edits a.py
Push ==
    /\ repo["a.py"] # Absent
    /\ repo' = [repo EXCEPT !["a.py"] = Edited(@)]
    /\ head' = IF default_branch THEN repo' ELSE head
    /\ UNCHANGED cache
    /\ Held

Next ==
    \/ CallNoToken
    \/ CallNoCache
    \/ CallCacheHit
    \/ CallCacheMalformed
    \/ CallCacheMiss
    \/ CallCacheError
    \/ ResolveSnapshot
    \/ ResolveFails
    \/ SkipExcluded
    \/ IndexFile
    \/ IndexFileFails
    \/ StoreIndex
    \/ StoreFails
    \/ FetchReadme
    \/ ReadmeFails
    \/ ExpandAndScan
    \/ ExpandFails
    \/ ReturnFile
    \/ ReturnNoFile
    \/ ReturnFails
    \/ Expire
    \/ CacheCorrupted
    \/ Push

Spec == Init /\ [][Next]_vars

----------------------------------------------------------------------------
(* SpecPair: two callers for the same (owner, repo, branch), token and      *)
(* cache backend present, repository and cache entry left alone by others   *)

\* snapshots of the two-caller runs
PairRepos ==
    {r \in Repos :
        /\ r["README.md"] # Absent
        /\ r["a.py"] \in {Absent, <<"stmt">>, MixedText}
        /\ r["b.py"] \in {Absent, <<"note">>}
        /\ r["c.py"] = Absent /\ r["docs/README.md"] = Absent /\ r["logo.png"] = Absent}

InitPair ==
    /\ temp = <<>> /\ nl_tokens \in 0..1
    /\ index = ChunkStart.index /\ sum_tokens = ChunkStart.sum_tokens
    /\ embedding_text = <<>> /\ embedding_list = <<>>
    /\ seed_lines = ChunkStart.seed_lines /\ chunk_pc = "off"
    /\ access_token = TRUE
    /\ redis_client = TRUE
    /\ repo \in PairRepos
    /\ default_branch = TRUE
    /\ head = repo
    /\ cache = NoEntry
    /\ pc = IdleLocals.pc
    /\ todo = IdleLocals.todo
    /\ content_embedding = IdleLocals.content_embedding
    /\ question_embedding = IdleLocals.question_embedding
    /\ readme_content = IdleLocals.readme_content
    /\ max_filename = IdleLocals.max_filename
    /\ result = IdleLocals.result
    /\ error = IdleLocals.error
    /\ raised = IdleLocals.raised
    /\ requests = IdleLocals.requests
    /\ index_source = IdleLocals.index_source
    /\ embeds = IdleLocals.embeds
    /\ fault = IdleLocals.fault
    /\ other = IdleLocals
    /\ SideIdle

\* the event loop resumes the other caller: between two awaits only one
\* caller runs, so an interleaving is a sequence of such hand-overs
Switch ==
    /\ other' = [pc |-> pc, todo |-> todo, content_embedding |-> content_embedding,
                 question_embedding |-> question_embedding,
                 readme_content |-> readme_content,
                 max_filename |-> max_filename, result |-> result, error |-> error,
                 raised |-> raised, requests |-> requests,
                 index_source |-> index_source, embeds |-> embeds, fault |-> fault]
    /\ pc' = other.pc
    /\ todo' = other.todo
    /\ content_embedding' = other.content_embedding
    /\ question_embedding' = other.question_embedding
    /\ readme_content' = other.readme_content
    /\ max_filename' = other.max_filename
    /\ result' = other.result
    /\ error' = other.error
    /\ raised' = other.raised
    /\ requests' = other.requests
    /\ index_source' = other.index_source
    /\ embeds' = other.embeds
    /\ fault' = other.fault
    /\ UNCHANGED <<temp, nl_tokens, index, sum_tokens, embedding_text, embedding_list,
                   seed_lines, chunk_pc, access_token, redis_client, repo,
                   default_branch, head, cache, sideVars>>

NextPair ==
    \/ CallCacheHit
    \/ CallCacheMiss
    \/ CallCacheError
    \/ ResolveSnapshot
    \/ ResolveFails
    \/ SkipExcluded
    \/ IndexFile
    \/ IndexFileFails
    \/ StoreIndex
    \/ StoreFails
    \/ FetchReadme
    \/ ReadmeFails
    \/ ExpandAndScan
    \/ ExpandFails
    \/ ReturnFile
    \/ ReturnNoFile
    \/ ReturnFails
    \/ Switch

SpecPair == InitPair /\ [][NextPair]_vars


----------------------------------------------------------------------------
(* Properties of the Chunker, checked under SpecChunk                       *)

\* the chunk holds the line at position p
InChunk(c, p) == \E k \in 1..Len(c.text) : c.text[k] = p

\* the chunk holds the line at position p outside its overlap seed
InChunkBody(c, p) == \E k \in (c.seed + 1)..Len(c.text) : c.text[k] = p

\* C5 (chunk coverage): once the file is chunked, every line of the file is in
\* at least one closed chunk, and outside the overlap seeds in at most one.
ChunkCoverage ==
    chunk_pc = "done" =>
        \A p \in 0..(Len(temp) - 1) :
            /\ \E k \in 1..Len(embedding_list) : InChunk(embedding_list[k], p)
            /\ Cardinality({k \in 1..Len(embedding_list) :
                                InChunkBody(embedding_list[k], p)}) <= 1

\* C6 (chunk budget): once the file is chunked, every chunk but the last of the
\* file measures at most CHUNK_TOKEN tokens, overlap-seed lines included.
ChunkBudget ==
    chunk_pc = "done" =>
        \A k \in 1..(Len(embedding_list) - 1) :
            SumTokens(temp, embedding_list[k].text) <= CHUNK_TOKEN

\* C7 (overlap correctness): in a file of more than OVERLAP_LINES lines, the
\* first OVERLAP_LINES lines of every chunk after the first are, in position
\* order, the last OVERLAP_LINES lines of the window that ended the chunk
\* before it.
OverlapCorrect ==
    (chunk_pc = "done" /\ Len(temp) > overlap_part) =>
        \A k \in 2..Len(embedding_list) :
            LET c == embedding_list[k]
                prev == embedding_list[k - 1]
            IN /\ Len(c.text) >= overlap_part
               /\ \A j \in 1..overlap_part : c.text[j] = prev.at - overlap_part + j

\* C8 (empty file): chunking the empty text closes no chunk, so nothing is
\* embedded for it.
EmptyFileNoChunk ==
    (chunk_pc = "done" /\ temp = <<"">>) => embedding_list = <<>>

\* C9 (short file): a file of fewer than OVERLAP_LINES lines yields exactly one
\* chunk, and that chunk has no overlap seed.
ShortFileOneChunk ==
    (chunk_pc = "done" /\ Len(temp) < overlap_part) =>
        /\ Len(embedding_list) = 1
        /\ embedding_list[1].seed = 0

\* C10 (last line closes): once the loop is over at least one chunk has been
\* closed, and the last chunk was closed on the last line of the file.
LastLineClosesChunk ==
    chunk_pc = "done" =>
        /\ Len(embedding_list) >= 1
        /\ embedding_list[Len(embedding_list)].at = Len(temp) - 1

\* a one-line file whose line alone exceeds CHUNK_TOKEN has been chunked
OverlongLineChunked ==
    /\ chunk_pc = "done"
    /\ temp = <<"blob">>
    /\ TokenCount(temp[1]) >= CHUNK_TOKEN
    /\ Len(embedding_list) = 1

----------------------------------------------------------------------------
(* Properties of file_embedding_similar, checked under Spec                 *)

\* the paths an index holds, in order
IndexNames(ix) == [k \in 1..Len(ix) |-> ix[k].name]

\* the paths a build over snapshot r visits and does not pass over
Eligible(r) == SelectSeq(FilePaths(r), LAMBDA p : ~Excluded(p))

\* C1 (no cache backend): without a cache backend, by the time the call goes
\* on to the README it has resolved the branch snapshot and built the index
\* from the fetched files, nothing was raised and nothing was persisted.
NoCacheRecomputes ==
    (access_token /\ ~redis_client /\ pc \in {"readme", "expand", "fetch"}) =>
        /\ {Request("branch", ""), Request("commit", ""), Request("tree", "")}
               \subseteq requests
        /\ IndexNames(content_embedding) = Eligible(repo)
        /\ ~raised
        /\ ~cache.present

\* C2 (one failed fetch): a build step whose content request fails adds no
\* entry for that file, leaves the entries built so far in place and goes on
\* to the next file; the call is not ended.
FailedFetchSkipped ==
    [][(/\ pc = "files" /\ todo # <<>>
        /\ Request("content", Head(todo)) \in requests'
        /\ content_embedding' = content_embedding)
       => (/\ pc' = "files"
           /\ todo' = Tail(todo)
           /\ error' = "none")]_vars

\* C3 (similarity scan): after the scan of a non-empty index, max_filename is
\* the owner of the first chunk, in iteration order, whose cosine similarity
\* to the query is maximal over all chunks of all files.
ScanSelectsArgmax ==
    (pc = "fetch" /\ Flatten(content_embedding) # <<>>) =>
        LET flat == Flatten(content_embedding)
            sim(k) == Similar(question_embedding, flat[k].vec)
        IN \E k \in 1..Len(flat) :
               /\ \A j \in 1..Len(flat) : AtLeast(sim(k), sim(j))
               /\ \A j \in 1..(k - 1) : Greater(sim(k), sim(j))
               /\ max_filename = flat[k].label

\* C4 (empty index): a call that scanned an empty index ends with no file
\* selected, returns None and lets no exception out of the method.
EmptyIndexNoMatch ==
    (pc = "done" /\ question_embedding # NoVector /\ Flatten(content_embedding) = <<>>) =>
        /\ max_filename = ""
        /\ result = None
        /\ ~raised

\* a build over a snapshot without eligible files left an empty index, the
\* scan ran over it and the call has ended
EmptyIndexScanned ==
    /\ pc = "done"
    /\ redis_client
    /\ Request("tree", "") \in requests
    /\ Eligible(repo) = <<>>
    /\ content_embedding = <<>>
    /\ question_embedding # NoVector
    /\ Request("content", "") \in requests
    /\ result = None

----------------------------------------------------------------------------
(* Properties of the cache of the embedding index (Spec, SpecPair)          *)

\* the requests that resolve the snapshot of a branch
SnapshotKinds == {"branch", "commit", "tree"}

\* C11 (served from the cache): a call whose index was read from the cache
\* computes no chunk embedding and issues no branch, commit or tree request;
\* its only content request is the final one, for the selected file.
ServedFromCache ==
    index_source = "cache" =>
        /\ embeds = 0
        /\ \A r \in requests : r.kind \notin SnapshotKinds
        /\ \A r \in requests :
               r.kind = "content" => (pc = "done" /\ r.path = max_filename)

\* a later call found the entry an earlier build stored, read a non-empty
\* index from it, scanned it and is about to fetch the selected file
SecondCallServed ==
    /\ index_source = "cache"
    /\ pc = "fetch"
    /\ cache.present /\ Parses(cache.doc)
    /\ content_embedding = Deserialize(cache.doc)
    /\ content_embedding # <<>>
    /\ max_filename # ""

\* C12 (failing cache operation): no call ends because redis_client.get or
\* redis_client.set raised; the call goes on to build or to retrieve.
CacheFailureNotFatal ==
    ~(pc = "done" /\ fault \in {"cache_get", "cache_set"})

\* C13 (malformed entry): no call ends because the cached value could not be
\* decoded; the value is taken for a miss and the index is rebuilt.
MalformedEntryRebuilt ==
    ~(pc = "done" /\ fault = "cache_decode")

SnapshotFailureSurfaced ==
    (pc = "done" /\ fault \in SnapshotKinds) =>
        /\ raised
        /\ \A r \in requests : r.kind # "content"
        /\ content_embedding = <<>>

\* the allow-list of file extensions (spec, section 6)
AllowedExtensions ==
    {".asm", ".bat", ".c", ".cs", ".cpp", ".cc", ".cxx", ".cmake", ".css", ".f90",
     ".f", ".for", ".go", ".hs", ".html", ".htm", ".java", ".js", ".jl", ".lua",
     ".md", ".php", ".pl", ".ps1", ".py", ".rb", ".rs", ".sql", ".scala", ".sh",
     ".ts", ".tex", ".vb"}

\* extension and last component of the paths of the model
Extension(path) ==
    CASE path \in {"README.md", "docs/README.md"} -> ".md"
      [] path \in {"a.py", "b.py", "c.py"} -> ".py"
      [] OTHER -> ".png"

Basename(path) == IF path = "docs/README.md" THEN "README.md" ELSE path

\* C16 (index keys): every key of the index has an allow-listed extension and
\* is not a README.md or .env file, in whatever directory.
IndexKeysEligible ==
    \A k \in 1..Len(content_embedding) :
        /\ Extension(content_embedding[k].name) \in AllowedExtensions
        /\ Basename(content_embedding[k].name) \notin {"README.md", ".env"}

BuiltIndex(r) ==
    [k \in 1..Len(Eligible(r)) |->
        [name |-> Eligible(r)[k], vecs |-> EmbedFile(r[Eligible(r)[k]], nl_tokens)]]

\* the steps of a call after its build
AfterBuild == {"readme", "expand", "fetch"}

ReturnsBranchContent ==
    [][(pc = "fetch" /\ pc' = "done" /\ result' # None) =>
           result' = repo[max_filename]]_vars

\* C20 (cached index is current): when the scan runs over an index read from
\* the cache, the vectors of every file are the embeddings of the content the
\* file has on the requested branch at that moment.
CachedIndexCurrent ==
    [][(pc = "expand" /\ pc' = "fetch" /\ index_source = "cache" /\ default_branch) =>
           \A k \in 1..Len(content_embedding) :
               content_embedding[k].vecs =
                   EmbedFile(repo[content_embedding[k].name], nl_tokens)]_vars

----------------------------------------------------------------------------
(* Properties of the failure paths of file_embedding_similar (Spec)         *)

\* the operations of a call that reach source control or the LLM
UpstreamOps == {"branch", "commit", "tree", "content", "readme", "llm", "result"}

\* C21 (upstream failure propagated): a call ended by the failure of a
\* source-control request or of the query-expansion call lets an error out
\* to its caller; it does not return as a call without a match does.
UpstreamFailurePropagated ==
    (pc = "done" /\ fault \in UpstreamOps /\ ~(fault = "result" /\ max_filename = "")) =>
        raised

\* C22 (missing README): no call is ended by the status of the README answer;
\* when no README is found the prompt is built with empty grounding text and
\* the call is on its way with no error.
MissingReadmeNoError ==
    /\ (pc = "done" /\ fault = "readme") => error # "http"
    /\ (pc \in {"expand", "fetch"} /\ ~ReadmeFound(head)) =>
           /\ readme_content = <<>>
           /\ fault = "none" /\ error = "none" /\ ~raised

\* a call in a repository without README built its index, selected a file
\* and returned its content
RetrievedWithoutReadme ==
    /\ pc = "done"
    /\ ~ReadmeFound(head)
    /\ Request("readme", "") \in requests
    /\ readme_content = <<>>
    /\ fault = "none"
    /\ max_filename # ""
    /\ result = head[max_filename]
    /\ result # None

\* tokens of a whole file text, line by line
FileTokens(lines) == SumTokens(lines, [k \in 1..Len(lines) |-> k - 1])

\* the repository of the end-to-end example: a.py of 600 tokens, b.py of at
\* most 50, no other eligible file
ExampleRepo(r) ==
    /\ r["a.py"] # Absent /\ FileTokens(r["a.py"]) = 600
    /\ r["b.py"] # Absent /\ FileTokens(r["b.py"]) <= 50
    /\ Eligible(r) = <<"a.py", "b.py">>

\* some chunk of the file at path is strictly more similar to the question
\* than every chunk of every other file
HighestFor(path) ==
    LET flat == Flatten(content_embedding)
        sim(k) == Similar(question_embedding, flat[k].vec)
    IN \E k \in 1..Len(flat) :
           /\ flat[k].label = path
           /\ \A j \in 1..Len(flat) :
                  flat[j].label # path => Greater(sim(k), sim(j))

\* C23 (end to end): over the example repository a completed build holds two
\* keys, two vectors for a.py and one for b.py; a scan whose highest
\* similarity is for b.py's chunk selects b.py, and the call then returns
\* b.py's full content.
EndToEndExample ==
    (ExampleRepo(repo) /\ default_branch /\ index_source = "built") =>
        /\ pc \in AfterBuild =>
               /\ Len(content_embedding) = 2
               /\ Len(content_embedding[1].vecs) = 2
               /\ Len(content_embedding[2].vecs) = 1
        /\ (pc = "fetch" /\ HighestFor("b.py")) => max_filename = "b.py"
        /\ (pc = "done" /\ fault = "none" /\ max_filename = "b.py") =>
               result = repo["b.py"]

----------------------------------------------------------------------------
(* SpecHelpers: _get_latest_commit_sha, get_all_py_files and                *)
(* get_files_content of one CodeAnalyzer, one call at a time, every cache   *)
(* operation free to raise and every GitHub request free to fail            *)

\* the newest commit of the repository and an older one a caller may name
HeadSha == "sha1"
OldSha == "sha0"

\* line 103: item["path"].endswith(".py"), on the paths of the model
EndsWithPy(path) == path \in {"a.py", "b.py", "c.py"}

\* lines 100-104: the .py blobs of the tree, in tree order
PyFiles == SelectSeq(TreePaths, EndsWithPy)

\* the raw content of a path at a commit
FileAt(sha, path) ==
    CASE path = "a.py" -> (IF sha = HeadSha THEN <<"stmt">> ELSE <<"anti">>)
      [] path = "b.py" -> <<"note">>
      [] OTHER -> <<"both">>

\* the file_paths arguments of the model
PathLists == {<<"a.py">>, <<"a.py", "b.py">>, <<"b.py", "c.py", "a.py">>}

\* the ref arguments of the model, "" for None
Refs == {"", OldSha}

\* json.dumps / json.loads of the file list
DumpList(list) == [json |-> list]
LoadList(doc) == doc.json

\* the other components are left alone by the helper methods
HelpersOnly == UNCHANGED <<chunkVars, callVars, geminiVars, commitVars, chatVars>>

\* file_paths is an argument: only a call of get_files_content sets it
SameArgs == UNCHANGED file_paths

InitHelpers ==
    /\ temp = <<>> /\ nl_tokens = 0
    /\ index = ChunkStart.index /\ sum_tokens = ChunkStart.sum_tokens
    /\ embedding_text = <<>> /\ embedding_list = <<>>
    /\ seed_lines = ChunkStart.seed_lines /\ chunk_pc = "off"
    /\ redis_client \in BOOLEAN
    /\ CallOff
    /\ HelpersIdle
    /\ GeminiIdle
    /\ CommitsIdle
    /\ ChatIdle

\* a call starts: its locals are fresh
EnterHelper(name) ==
    /\ hpc \in {"idle", "done"}
    /\ method' = name
    /\ files_content_map' = <<>>
    /\ returned' = None /\ escaped' = FALSE
    /\ cache_faults' = 0 /\ fetch_faults' = {}

\* CodeAnalyzer.__init__ (line 28): a new instance has no memoized SHA
NewAnalyzer ==
    /\ hpc \in {"idle", "done"}
    /\ latest_commit_sha # ""
    /\ latest_commit_sha' = ""
    /\ UNCHANGED <<method, hpc, commit_sha_to_use, store, paths_todo, files_content_map,
                   returned, escaped, cache_faults, fetch_faults, redis_client>>
    /\ SameArgs
    /\ HelpersOnly

\* _get_latest_commit_sha() is called
CallSha ==
    /\ EnterHelper("_get_latest_commit_sha")
    /\ hpc' = "sha"
    /\ UNCHANGED <<latest_commit_sha, commit_sha_to_use, store, paths_todo, redis_client>>
    /\ SameArgs
    /\ HelpersOnly

\* get_all_py_files() is called: line 71 calls _get_latest_commit_sha
CallPyFiles ==
    /\ EnterHelper("get_all_py_files")
    /\ hpc' = "sha"
    /\ UNCHANGED <<latest_commit_sha, commit_sha_to_use, store, paths_todo, redis_client>>
    /\ SameArgs
    /\ HelpersOnly

\* get_files_content(file_paths, ref) is called: line 124
CallFilesContent ==
    /\ EnterHelper("get_files_content")
    /\ \E paths \in PathLists, ref \in Refs :
           /\ file_paths' = paths
           /\ paths_todo' = paths
           /\ commit_sha_to_use' = ref
           /\ hpc' = IF ref # "" THEN "file_get" ELSE "sha"
    /\ UNCHANGED <<latest_commit_sha, store, redis_client>>
    /\ HelpersOnly

\* _get_latest_commit_sha returns sha to its caller: to the outside, to line
\* 72 of get_all_py_files, or to line 124 of get_files_content
ShaReturns(sha) ==
    /\ hpc' = CASE method = "_get_latest_commit_sha" -> "done"
                [] method = "get_all_py_files" -> "list_get"
                [] OTHER -> "file_get"
    /\ returned' = IF method = "_get_latest_commit_sha" THEN sha ELSE returned
    /\ commit_sha_to_use' = IF method = "get_files_content" THEN sha
                            ELSE commit_sha_to_use

\* lines 32-45: the memoized SHA, else the cached one, else the request
ShaLookup ==
    /\ hpc = "sha"
    /\ \/ /\ latest_commit_sha # ""
          /\ ShaReturns(latest_commit_sha)
          /\ UNCHANGED <<latest_commit_sha, cache_faults>>
       \/ /\ latest_commit_sha = "" /\ redis_client /\ store.sha # ""
          /\ latest_commit_sha' = store.sha
          /\ ShaReturns(store.sha)
          /\ UNCHANGED cache_faults
       \/ /\ latest_commit_sha = "" /\ (~redis_client \/ store.sha = "")
          /\ hpc' = "sha_fetch"
          /\ UNCHANGED <<latest_commit_sha, commit_sha_to_use, returned, cache_faults>>
       \/ \* redis_client.get raises: logged at line 45
          /\ latest_commit_sha = "" /\ redis_client
          /\ cache_faults' = cache_faults + 1
          /\ hpc' = "sha_fetch"
          /\ UNCHANGED <<latest_commit_sha, commit_sha_to_use, returned>>
    /\ UNCHANGED <<method, store, paths_todo, files_content_map, escaped, fetch_faults,
                   redis_client>>
    /\ SameArgs
    /\ HelpersOnly

\* lines 47-64: the commits request answers, the SHA is memoized and cached
ShaAnswer ==
    /\ hpc = "sha_fetch"
    /\ latest_commit_sha' = HeadSha
    /\ \/ /\ redis_client
          /\ store' = [store EXCEPT !.sha = HeadSha]
          /\ UNCHANGED cache_faults
       \/ /\ ~redis_client
          /\ UNCHANGED <<store, cache_faults>>
       \/ \* redis_client.set raises: logged at line 62
          /\ redis_client
          /\ cache_faults' = cache_faults + 1
          /\ UNCHANGED store
    /\ ShaReturns(HeadSha)
    /\ UNCHANGED <<method, paths_todo, files_content_map, escaped, fetch_faults,
                   redis_client>>
    /\ SameArgs
    /\ HelpersOnly

\* an exception leaves the method
Escapes ==
    /\ escaped' = TRUE
    /\ returned' = None
    /\ hpc' = "done"

\* lines 47-52: the commits request raises, or raise_for_status() does
ShaFetchFails ==
    /\ hpc = "sha_fetch"
    /\ fetch_faults' = fetch_faults \cup {"commits"}
    /\ Escapes
    /\ UNCHANGED <<method, latest_commit_sha, commit_sha_to_use, store, paths_todo,
                   files_content_map, cache_faults, redis_client>>
    /\ SameArgs
    /\ HelpersOnly

\* lines 76-86: the cached file list, else the tree request
ListLookup ==
    /\ hpc = "list_get"
    /\ \/ /\ redis_client /\ store.files.present
          /\ returned' = LoadList(store.files.doc)
          /\ hpc' = "done"
          /\ UNCHANGED cache_faults
       \/ /\ ~redis_client \/ ~store.files.present
          /\ hpc' = "list_fetch"
          /\ UNCHANGED <<returned, cache_faults>>
       \/ \* redis_client.get raises: logged at line 86
          /\ redis_client
          /\ cache_faults' = cache_faults + 1
          /\ hpc' = "list_fetch"
          /\ UNCHANGED returned
    /\ UNCHANGED <<method, latest_commit_sha, commit_sha_to_use, store, paths_todo,
                   files_content_map, escaped, fetch_faults, redis_client>>
    /\ SameArgs
    /\ HelpersOnly

\* lines 91-114: the tree answers, the .py paths are cached and returned
ListAnswer ==
    /\ hpc = "list_fetch"
    /\ \/ /\ redis_client
          /\ store' = [store EXCEPT !.files = [present |-> TRUE, doc |-> DumpList(PyFiles)]]
          /\ UNCHANGED cache_faults
       \/ /\ ~redis_client
          /\ UNCHANGED <<store, cache_faults>>
       \/ \* redis_client.set raises: logged at line 112
          /\ redis_client
          /\ cache_faults' = cache_faults + 1
          /\ UNCHANGED store
    /\ returned' = PyFiles
    /\ hpc' = "done"
    /\ UNCHANGED <<method, latest_commit_sha, commit_sha_to_use, paths_todo,
                   files_content_map, escaped, fetch_faults, redis_client>>
    /\ SameArgs
    /\ HelpersOnly

\* lines 91-95: the tree request raises, or raise_for_status() does
ListFetchFails ==
    /\ hpc = "list_fetch"
    /\ fetch_faults' = fetch_faults \cup {"tree"}
    /\ Escapes
    /\ UNCHANGED <<method, latest_commit_sha, commit_sha_to_use, store, paths_todo,
                   files_content_map, cache_faults, redis_client>>
    /\ SameArgs
    /\ HelpersOnly

\* the cache entry of a path at commit_sha_to_use
Cached(path) == {e \in store.content : e.sha = commit_sha_to_use /\ e.path = path}

\* lines 126-139: the next path: its cached content, else the contents request
FileLookup ==
    /\ hpc = "file_get" /\ paths_todo # <<>>
    /\ LET path == Head(paths_todo)
       IN \/ /\ redis_client /\ Cached(path) # {}
             /\ \E e \in Cached(path) :
                    files_content_map' = Append(files_content_map, <<path, e.text>>)
             /\ paths_todo' = Tail(paths_todo)
             /\ UNCHANGED <<hpc, cache_faults>>
          \/ /\ ~redis_client \/ Cached(path) = {}
             /\ hpc' = "file_fetch"
             /\ UNCHANGED <<files_content_map, paths_todo, cache_faults>>
          \/ \* redis_client.get raises: logged at line 139
             /\ redis_client
             /\ cache_faults' = cache_faults + 1
             /\ hpc' = "file_fetch"
             /\ UNCHANGED <<files_content_map, paths_todo>>
    /\ UNCHANGED <<method, latest_commit_sha, commit_sha_to_use, store, returned, escaped,
                   fetch_faults, redis_client>>
    /\ SameArgs
    /\ HelpersOnly

\* lines 144-162: the contents request answers 200, the text joins the map
\* and is cached
FileAnswer ==
    /\ hpc = "file_fetch"
    /\ LET path == Head(paths_todo)
           content == FileAt(commit_sha_to_use, path)
       IN /\ files_content_map' = Append(files_content_map, <<path, content>>)
          /\ \/ /\ redis_client
                /\ store' = [store EXCEPT !.content =
                                @ \cup {[sha |-> commit_sha_to_use, path |-> path,
                                         text |-> content]}]
                /\ UNCHANGED cache_faults
             \/ /\ ~redis_client
                /\ UNCHANGED <<store, cache_faults>>
             \/ \* redis_client.set raises: logged at line 162
                /\ redis_client
                /\ cache_faults' = cache_faults + 1
                /\ UNCHANGED store
    /\ paths_todo' = Tail(paths_todo)
    /\ hpc' = "file_get"
    /\ UNCHANGED <<method, latest_commit_sha, commit_sha_to_use, returned, escaped,
                   fetch_faults, redis_client>>
    /\ SameArgs
    /\ HelpersOnly

\* line 151 false: the contents request answers another status than 200,
\* nothing is added for the path
FileAnswerNot200 ==
    /\ hpc = "file_fetch"
    /\ fetch_faults' = fetch_faults \cup {Head(paths_todo)}
    /\ paths_todo' = Tail(paths_todo)
    /\ hpc' = "file_get"
    /\ UNCHANGED <<method, latest_commit_sha, commit_sha_to_use, store, files_content_map,
                   returned, escaped, cache_faults, redis_client>>
    /\ SameArgs
    /\ HelpersOnly

\* line 144: the contents request raises (timeout, connection error); the
\* handler of lines 163-166 names httpx.HTTPStatusError only
FileFetchRaises ==
    /\ hpc = "file_fetch"
    /\ fetch_faults' = fetch_faults \cup {Head(paths_todo)}
    /\ Escapes
    /\ UNCHANGED <<method, latest_commit_sha, commit_sha_to_use, store, paths_todo,
                   files_content_map, cache_faults, redis_client>>
    /\ SameArgs
    /\ HelpersOnly

\* line 168: every path visited, the map is returned
FilesReturn ==
    /\ hpc = "file_get" /\ paths_todo = <<>>
    /\ returned' = files_content_map
    /\ hpc' = "done"
    /\ UNCHANGED <<method, latest_commit_sha, commit_sha_to_use, store, paths_todo,
                   files_content_map, escaped, cache_faults, fetch_faults, redis_client>>
    /\ SameArgs
    /\ HelpersOnly

NextHelpers ==
    \/ NewAnalyzer
    \/ CallSha
    \/ CallPyFiles
    \/ CallFilesContent
    \/ ShaLookup
    \/ ShaAnswer
    \/ ShaFetchFails
    \/ ListLookup
    \/ ListAnswer
    \/ ListFetchFails
    \/ FileLookup
    \/ FileAnswer
    \/ FileAnswerNot200
    \/ FileFetchRaises
    \/ FilesReturn

SpecHelpers == InitHelpers /\ [][NextHelpers]_vars

\* the map get_files_content builds from direct requests when the paths in
\* faults are the ones whose request did not succeed
ContentMap(paths, sha, faults) ==
    LET kept == SelectSeq(paths, LAMBDA p : p \notin faults)
    IN [k \in 1..Len(kept) |-> <<kept[k], FileAt(sha, kept[k])>>]

\* what the method returns from direct requests alone, with no cache
Direct(name) ==
    CASE name = "_get_latest_commit_sha" -> HeadSha
      [] name = "get_all_py_files" -> PyFiles
      [] OTHER -> ContentMap(file_paths, commit_sha_to_use, {})

\* C24 (helper methods): a call none of whose GitHub requests failed ends
\* without exception and returns what it returns with no cache, however
\* many of its cache operations raised; and get_files_content, once it has
\* its commit SHA, ends without exception and returns the contents of the
\* paths whose request succeeded, leaving out the others.
HelperCacheFaultsHarmless ==
    hpc = "done" =>
        /\ fetch_faults = {} => (~escaped /\ returned = Direct(method))
        /\ (method = "get_files_content" /\ "commits" \notin fetch_faults) =>
               /\ ~escaped
               /\ returned = ContentMap(file_paths, commit_sha_to_use, fetch_faults)

----------------------------------------------------------------------------
(* Properties of the Chunker loop, continued (SpecChunk)                    *)

\* C25 (restart after a close): a step that closes a chunk before the last
\* line leaves as accumulated text and running count exactly the seed, the
\* last OVERLAP_LINES lines counted backward from the current position and
\* re-tokenized, when at least OVERLAP_LINES lines were consumed before it;
\* otherwise it leaves an empty text and a count of zero.
ChunkRestarts ==
    [][(Len(embedding_list') = Len(embedding_list) + 1 /\ index < Len(temp) - 1) =>
           IF index >= overlap_part
           THEN /\ embedding_text' = SeedPositions(index)
                /\ sum_tokens' = SeedTokens(temp, SeedPositions(index), nl_tokens)
           ELSE /\ embedding_text' = <<>>
                /\ sum_tokens' = 0]_vars

----------------------------------------------------------------------------
(* SpecGemini: one call of generate_gemini_content (setting.py 290-367)     *)
(* under the decorator retry_on_quota_exceeded (134-153), made by           *)
(* chat_with_repo (chatting_repo.py 341-376)                                *)

\* retry_on_quota_exceeded(max_retries=3): stop_after_attempt(max_retries)
max_retries == 3

\* error messages of the provider: retry_delay seconds (0: the message has no
\* retry_delay), and whether it lists several quota violations, the daily
\* one among them
Messages ==
    {[seconds |-> 0, daily |-> FALSE], [seconds |-> 30, daily |-> FALSE],
     [seconds |-> 30, daily |-> TRUE]}

NoMessage == [seconds |-> 0, daily |-> FALSE]

\* lines 58-66
extract_retry_delay(msg) == IF msg.seconds = 0 THEN 60 ELSE msg.seconds

\* lines 96-131: the retry delay that goes with the message
format_rate_limit_error(msg) == IF msg.daily THEN 86400 ELSE extract_retry_delay(msg)

\* raise HTTPException(status_code, headers={"Retry-After": ...}); 0: no header
HTTPException(status, retry_after) ==
    [kind |-> "HTTPException", status |-> status, retry_after |-> retry_after]

\* tenacity.RetryError, raised by the decorator when the attempts are used up
RetryError == [kind |-> "RetryError", status |-> 0, retry_after |-> 0]

\* the other components are left alone
GeminiOnly == UNCHANGED <<chunkVars, callVars, helperVars, commitVars, chatVars>>

InitGemini ==
    /\ temp = <<>> /\ nl_tokens = 0
    /\ index = ChunkStart.index /\ sum_tokens = ChunkStart.sum_tokens
    /\ embedding_text = <<>> /\ embedding_list = <<>>
    /\ seed_lines = ChunkStart.seed_lines /\ chunk_pc = "off"
    /\ CallIdle
    /\ SideIdle

\* chatting_repo.py line 341: the first attempt starts
GenerateCall ==
    /\ gpc \in {"idle", "done"}
    /\ gpc' = "attempt"
    /\ attempt_number' = 1
    /\ attempts' = <<>>
    /\ gen_result' = NoOutcome
    /\ response' = NoOutcome
    /\ GeminiOnly

\* an attempt ends with an outcome that is not retried: the decorator hands
\* it to the caller
Settles(outcome, msg, given) ==
    /\ gpc = "attempt"
    /\ attempts' = Append(attempts, [kind |-> outcome, msg |-> msg])
    /\ gen_result' = given
    /\ gpc' = "returned"
    /\ UNCHANGED <<attempt_number, response>>
    /\ GeminiOnly

\* lines 299, 318: generate_content answers a text
AttemptReturns == Settles("text", NoMessage, [kind |-> "text", status |-> 200, retry_after |-> 0])

\* lines 300-317: an empty answer; the HTTPException raised at line 313 or
\* 314 is caught at line 359 and raised again with status 500
AttemptEmpty == Settles("empty", NoMessage, HTTPException(500, 0))

\* lines 324-338: a GoogleAPIError other than ResourceExhausted whose message
\* speaks of quota, rate limit or 429
AttemptRateLimited ==
    \E msg \in Messages :
        Settles("GoogleAPIError", msg, HTTPException(429, format_rate_limit_error(msg)))

\* lines 324-341, 359-367: any other GoogleAPIError, any other exception
AttemptFails == Settles("Exception", NoMessage, HTTPException(500, 0))

\* lines 299, 319-323, 147-149: generate_content raises ResourceExhausted, it
\* is raised again twice; the decorator (lines 136-139, no reraise) retries
\* while attempts are left and raises RetryError when they are used up,
\* outside the try block of generate_gemini_content
AttemptExhausted ==
    /\ gpc = "attempt"
    /\ \E msg \in Messages :
           attempts' = Append(attempts, [kind |-> "ResourceExhausted", msg |-> msg])
    /\ IF attempt_number < max_retries
       THEN gpc' = "sleep" /\ UNCHANGED gen_result
       ELSE gpc' = "returned" /\ gen_result' = RetryError
    /\ UNCHANGED <<attempt_number, response>>
    /\ GeminiOnly

\* lines 138, 140: the wait is over, the next attempt starts
Retry ==
    /\ gpc = "sleep"
    /\ attempt_number' = attempt_number + 1
    /\ gpc' = "attempt"
    /\ UNCHANGED <<attempts, gen_result, response>>
    /\ GeminiOnly

\* chatting_repo.py lines 341-376: the answer is returned, an HTTPException is
\* raised again (369-371), anything else becomes a 500 (372-376)
ChatResponds ==
    /\ gpc = "returned"
    /\ response' = CASE gen_result.kind = "text" -> gen_result
                     [] gen_result.kind = "HTTPException" -> gen_result
                     [] OTHER -> HTTPException(500, 0)
    /\ gpc' = "done"
    /\ UNCHANGED <<attempt_number, attempts, gen_result>>
    /\ GeminiOnly

NextGemini ==
    \/ GenerateCall
    \/ AttemptReturns
    \/ AttemptEmpty
    \/ AttemptRateLimited
    \/ AttemptFails
    \/ AttemptExhausted
    \/ Retry
    \/ ChatResponds

SpecGemini == InitGemini /\ [][NextGemini]_vars

\* C26 (quota exhausted): an attempt is made again only after one that failed
\* with ResourceExhausted, at most max_retries attempts are made, and a call
\* all of whose attempts failed with ResourceExhausted ends with status 429
\* and a Retry-After header, for the caller of generate_gemini_content and
\* for the HTTP client.
QuotaExhaustionAnswered ==
    /\ Len(attempts) <= max_retries
    /\ \A k \in 1..(Len(attempts) - 1) : attempts[k].kind = "ResourceExhausted"
    /\ (gpc \in {"returned", "done"}
        /\ \A k \in 1..Len(attempts) : attempts[k].kind = "ResourceExhausted") =>
           /\ gen_result.kind = "HTTPException"
           /\ gen_result.status = 429 /\ gen_result.retry_after > 0
           /\ gpc = "done" => (response.status = 429 /\ response.retry_after > 0)

----------------------------------------------------------------------------
(* SpecCommits: get_commit_number_and_list (setting.py 192-245) called by   *)
(* two requests for the same repository, their steps interleaved at the     *)
(* awaits of line 205                                                       *)

\* params={"per_page": 100}, and the test of line 216
per_page == 100

\* numbers of commits of the repositories of the model
RepoSizes == {0, 1, 3, 100, 101}

\* the SHA at position k of the newest-first list
ShaAt(k) == 500 + k

Commits(n) == [k \in 1..n |-> ShaAt(k)]

\* response.json() of page p: the commits (p-1)*per_page+1 .. p*per_page
PageOf(commits, p) ==
    LET first == (p - 1) * per_page + 1
        last == IF p * per_page < Len(commits) THEN p * per_page ELSE Len(commits)
    IN IF first > Len(commits) THEN <<>> ELSE SubSeq(commits, first, last)

\* reversed(all_commits_fetched)
Reversed(seq) == [i \in 1..Len(seq) |-> seq[Len(seq) - i + 1]]

\* lines 236-237: commit["sha"] -> i for i, commit in enumerate(reversed(..), 1);
\* a later assignment to the same SHA replaces an earlier one
NumberCommits(all) ==
    [s \in {all[k] : k \in 1..Len(all)} |->
        CHOOSE i \in 1..Len(all) :
            /\ Reversed(all)[i] = s
            /\ \A j \in (i + 1)..Len(all) : Reversed(all)[j] # s]

\* the other components are left alone
CommitsOnly == UNCHANGED <<chunkVars, callVars, helperVars, geminiVars, chatVars>>

InitCommits ==
    /\ temp = <<>> /\ nl_tokens = 0
    /\ index = ChunkStart.index /\ sum_tokens = ChunkStart.sum_tokens
    /\ embedding_text = <<>> /\ embedding_list = <<>>
    /\ seed_lines = ChunkStart.seed_lines /\ chunk_pc = "off"
    /\ CallIdle
    /\ HelpersIdle /\ GeminiIdle /\ ChatIdle
    /\ repo_commits \in {Commits(n) : n \in RepoSizes}
    /\ commit_number_cache = NoKey /\ commit_data_cache = NoKey
    /\ cpc = CommitLocalsIdle.cpc
    /\ all_commits_fetched = CommitLocalsIdle.all_commits_fetched
    /\ page = CommitLocalsIdle.page
    /\ commits_result = CommitLocalsIdle.commits_result
    /\ peer = CommitLocalsIdle

\* line 245: the pair returned to the caller
Returned(map, list, fetched) ==
    [kind |-> "ok", map |-> map, list |-> list, fetched |-> fetched]

\* lines 196-201: a key is missing: both entries are set to empty values, the
\* locals are initialised and the request for page 1 goes out
CommitsMiss ==
    /\ cpc \in {"idle", "done"}
    /\ ~commit_number_cache.present \/ ~commit_data_cache.present
    /\ commit_number_cache' = [present |-> TRUE, value |-> <<>>]
    /\ commit_data_cache' = [present |-> TRUE, value |-> <<>>]
    /\ all_commits_fetched' = <<>>
    /\ page' = 1
    /\ commits_result' = CommitLocalsIdle.commits_result
    /\ cpc' = "fetching"
    /\ UNCHANGED <<repo_commits, peer>>
    /\ CommitsOnly

\* lines 196, 241-245: both keys are there: the entries are returned
CommitsHit ==
    /\ cpc \in {"idle", "done"}
    /\ commit_number_cache.present /\ commit_data_cache.present
    /\ commits_result' =
           Returned(commit_number_cache.value, commit_data_cache.value, FALSE)
    /\ cpc' = "done"
    /\ UNCHANGED <<repo_commits, commit_number_cache, commit_data_cache,
                   all_commits_fetched, page, peer>>
    /\ CommitsOnly

\* lines 205-217 and, when the loop ends, 230-245: a page answers
PageAnswers ==
    /\ cpc = "fetching"
    /\ LET page_commits == PageOf(repo_commits, page)
           all == all_commits_fetched \o page_commits
           more == page_commits # <<>> /\ Len(page_commits) >= per_page
       IN /\ all_commits_fetched' = all
          /\ page' = IF page_commits = <<>> THEN page ELSE page + 1
          /\ IF more
             THEN /\ cpc' = "fetching"
                  /\ UNCHANGED <<commit_number_cache, commit_data_cache, commits_result>>
             ELSE /\ cpc' = "done"
                  /\ commit_data_cache' = [present |-> TRUE, value |-> all]
                  /\ commit_number_cache' =
                         [present |-> TRUE,
                          value |-> IF all = <<>> THEN <<>> ELSE NumberCommits(all)]
                  /\ commits_result' =
                         IF all = <<>> THEN Returned(<<>>, <<>>, TRUE)
                         ELSE Returned(NumberCommits(all), all, TRUE)
    /\ UNCHANGED <<repo_commits, peer>>
    /\ CommitsOnly

\* lines 210, 218-229: raise_for_status() raises, HTTPException is raised; or
\* the request itself raises and the exception leaves the function
PageFails ==
    /\ cpc = "fetching"
    /\ \E kind \in FailKinds :
           commits_result' = [kind |-> kind, map |-> <<>>, list |-> <<>>, fetched |-> TRUE]
    /\ cpc' = "done"
    /\ UNCHANGED <<repo_commits, commit_number_cache, commit_data_cache,
                   all_commits_fetched, page, peer>>
    /\ CommitsOnly

\* the event loop resumes the other request
SwitchCaller ==
    /\ peer' = [cpc |-> cpc, all_commits_fetched |-> all_commits_fetched, page |-> page,
                commits_result |-> commits_result]
    /\ cpc' = peer.cpc
    /\ all_commits_fetched' = peer.all_commits_fetched
    /\ page' = peer.page
    /\ commits_result' = peer.commits_result
    /\ UNCHANGED <<repo_commits, commit_number_cache, commit_data_cache>>
    /\ CommitsOnly

NextCommits ==
    \/ CommitsMiss
    \/ CommitsHit
    \/ PageAnswers
    \/ PageFails
    \/ SwitchCaller

SpecCommits == InitCommits /\ [][NextCommits]_vars

----------------------------------------------------------------------------
(* Properties of the commit caches                                          *)

\* chatting_repo.py 82-84, analyze_diff_commit.py 55-57: the position of the
\* first commit of the list with the target SHA, 0 when there is none
TargetPosition(commits_data, target_sha) ==
    IF \E k \in 1..Len(commits_data) : commits_data[k] = target_sha
    THEN CHOOSE k \in 1..Len(commits_data) :
             /\ commits_data[k] = target_sha
             /\ \A j \in 1..(k - 1) : commits_data[j] # target_sha
    ELSE 0

\* dict.get: the number of a SHA, 0 for None
NumberOf(commit_map, sha) ==
    IF sha \in DOMAIN commit_map THEN commit_map[sha] ELSE 0

\* chatting_repo.py 108-115, analyze_diff_commit.py 86-91: the SHA taken as the
\* previous commit of the target, 0 when there is none
PreviousSha(commits_data, target_sha) ==
    LET k == TargetPosition(commits_data, target_sha)
    IN IF k > 0 /\ k < Len(commits_data) THEN commits_data[k + 1] ELSE 0

\* C27: when the fetch of get_commit_number_and_list fails, both caches are
\* left as they were before the call, which found the key missing: the key is
\* in neither cache afterwards, and the next call fetches again.
FailedFetchLeavesCaches ==
    [][(cpc = "fetching" /\ cpc' = "done" /\ commits_result'.kind \in FailKinds) =>
           /\ ~commit_number_cache'.present
           /\ ~commit_data_cache'.present]_vars

\* C28: while one request's fetch is suspended, a call of the other request for
\* the same repository, which has commits, does not return an empty commit map
\* and an empty commit list.
ConcurrentCallNotEmpty ==
    (/\ peer.cpc = "fetching"
     /\ cpc = "done" /\ commits_result.kind = "ok"
     /\ repo_commits # <<>>) =>
        /\ commits_result.list # <<>>
        /\ DOMAIN commits_result.map # {}

\* the pair of a call: the numbers 1..N on the N commits of the newest-first
\* list, oldest 1 and newest N; the previous commit of a target one less than
\* the target; no previous commit for the oldest
WellNumbered(r) ==
    LET N == Len(repo_commits)
    IN /\ r.list = repo_commits
       /\ DOMAIN r.map = {repo_commits[k] : k \in 1..N}
       /\ \A k \in 1..N : r.map[repo_commits[k]] = N - k + 1
       /\ \A k \in 1..N :
              LET prev == PreviousSha(r.list, repo_commits[k])
              IN IF k = N THEN prev = 0
                 ELSE NumberOf(r.map, prev) = NumberOf(r.map, repo_commits[k]) - 1

\* C29: whenever get_commit_number_and_list has returned for a repository with
\* N commits, the returned map numbers the commits of the returned newest-first
\* list 1..N, oldest 1 and newest N, and the commit taken as previous has the
\* number one less; the oldest has none.
CommitNumbering ==
    (cpc = "done" /\ commits_result.kind = "ok") => WellNumbered(commits_result)

----------------------------------------------------------------------------
(* SpecChat: chat_with_repo (chatting_repo.py) and conversation_history,    *)
(* two requests whose steps are interleaved at their awaits. A request      *)
(* waits for GitHub before line 271; lines 271-357 run without a pause      *)
(* unless generate_content raises ResourceExhausted and the retry decorator *)
(* sleeps before the next attempt.                                          *)

\* requests received in one behaviour of the model
MaxRequests == 6

\* lines 352-355: the pairs kept in an entry
history_limit == 5

\* line 275: the pairs of the entry put in the prompt
prompt_pairs == 3

\* seq[-n:]
LastN(seq, n) ==
    IF Len(seq) <= n THEN seq ELSE SubSeq(seq, Len(seq) - n + 1, Len(seq))

\* lines 349-351: the pair of a request
Pair(q) == [question |-> q, answer |-> q]

\* the other components are left alone
ChatOnly == UNCHANGED <<chunkVars, callVars, helperVars, geminiVars, commitVars>>

InitChat ==
    /\ temp = <<>> /\ nl_tokens = 0
    /\ index = ChunkStart.index /\ sum_tokens = ChunkStart.sum_tokens
    /\ embedding_text = <<>> /\ embedding_list = <<>>
    /\ seed_lines = ChunkStart.seed_lines /\ chunk_pc = "off"
    /\ CallIdle
    /\ SideIdle

\* lines 27-53: a request arrives and waits for the token validation
ChatArrives ==
    /\ chat_pc \in {"idle", "done"}
    /\ asked < MaxRequests
    /\ asked' = asked + 1
    /\ question' = asked + 1
    /\ \E k \in HistoryKeys : history_key' = k
    /\ seen' = <<>>
    /\ history_for_prompt' = <<>>
    /\ chat_attempt' = 0
    /\ chat_reply' = "none"
    /\ chat_pc' = "context"
    /\ UNCHANGED <<conversation_history, answered, chat_peer>>
    /\ ChatOnly

\* lines 53-54, 58, 93-269, 359-376: the token is invalid, or a request to
\* GitHub made for the context fails: an HTTPException is raised
ChatContextFails ==
    /\ chat_pc = "context"
    /\ chat_reply' = "HTTPException"
    /\ chat_pc' = "done"
    /\ UNCHANGED <<conversation_history, asked, answered, question, history_key,
                   seen, history_for_prompt, chat_attempt, chat_peer>>
    /\ ChatOnly

\* lines 61-66: no commits: an apology is returned with an empty history
ChatNoCommits ==
    /\ chat_pc = "context"
    /\ chat_reply' = "no commits"
    /\ chat_pc' = "done"
    /\ UNCHANGED <<conversation_history, asked, answered, question, history_key,
                   seen, history_for_prompt, chat_attempt, chat_peer>>
    /\ ChatOnly

\* lines 272-273: the entry of the key, made when it is missing
EntryOf(k) ==
    IF conversation_history[k].present THEN conversation_history[k].value ELSE <<>>

\* lines 349-356: the pair is appended and the entry cut to its last pairs
Appended(entry, q) ==
    LET longer == Append(entry, Pair(q))
    IN IF Len(longer) > history_limit THEN LastN(longer, history_limit) ELSE longer

\* lines 271-278: the entry is made when missing and its last pairs are put
\* in the prompt
BuildPrompt ==
    /\ seen' = EntryOf(history_key)
    /\ history_for_prompt' = LastN(EntryOf(history_key), prompt_pairs)

\* lines 271-357: the prompt is built and the first attempt gives a text: the
\* pair is appended and the answer returned
ChatAnswers ==
    /\ chat_pc = "context"
    /\ BuildPrompt
    /\ chat_attempt' = 1
    /\ conversation_history' =
           [conversation_history EXCEPT ![history_key] =
                [present |-> TRUE, value |-> Appended(EntryOf(history_key), question)]]
    /\ answered' = [answered EXCEPT ![history_key] = @ \cup {question}]
    /\ chat_reply' = "answer"
    /\ chat_pc' = "done"
    /\ UNCHANGED <<asked, question, history_key, chat_peer>>
    /\ ChatOnly

\* lines 271-341, 369-376: the prompt is built and the first attempt fails
\* with anything but ResourceExhausted
ChatGenerationFails ==
    /\ chat_pc = "context"
    /\ BuildPrompt
    /\ chat_attempt' = 1
    /\ conversation_history' =
           [conversation_history EXCEPT ![history_key] =
                [present |-> TRUE, value |-> EntryOf(history_key)]]
    /\ chat_reply' = "HTTPException"
    /\ chat_pc' = "done"
    /\ UNCHANGED <<asked, answered, question, history_key, chat_peer>>
    /\ ChatOnly

\* lines 271-341, setting.py 136-149: the prompt is built, the first attempt
\* raises ResourceExhausted and the decorator sleeps
ChatQuota ==
    /\ chat_pc = "context"
    /\ BuildPrompt
    /\ chat_attempt' = 1
    /\ conversation_history' =
           [conversation_history EXCEPT ![history_key] =
                [present |-> TRUE, value |-> EntryOf(history_key)]]
    /\ chat_pc' = "sleep"
    /\ UNCHANGED <<asked, answered, question, history_key, chat_reply, chat_peer>>
    /\ ChatOnly

\* lines 341-357: a later attempt gives a text
ChatRetryAnswers ==
    /\ chat_pc = "sleep"
    /\ chat_attempt' = chat_attempt + 1
    /\ conversation_history' =
           [conversation_history EXCEPT ![history_key] =
                [present |-> TRUE, value |-> Appended(EntryOf(history_key), question)]]
    /\ answered' = [answered EXCEPT ![history_key] = @ \cup {question}]
    /\ chat_reply' = "answer"
    /\ chat_pc' = "done"
    /\ UNCHANGED <<asked, question, history_key, seen, history_for_prompt, chat_peer>>
    /\ ChatOnly

\* lines 341, 369-376: a later attempt fails with anything but
\* ResourceExhausted
ChatRetryFails ==
    /\ chat_pc = "sleep"
    /\ chat_attempt' = chat_attempt + 1
    /\ chat_reply' = "HTTPException"
    /\ chat_pc' = "done"
    /\ UNCHANGED <<conversation_history, asked, answered, question, history_key,
                   seen, history_for_prompt, chat_peer>>
    /\ ChatOnly

\* setting.py 136-149, chatting_repo.py 372-376: a later attempt raises
\* ResourceExhausted: the decorator sleeps again, or gives up after
\* max_retries attempts
ChatRetryQuota ==
    /\ chat_pc = "sleep"
    /\ chat_attempt' = chat_attempt + 1
    /\ IF chat_attempt + 1 < max_retries
       THEN UNCHANGED <<chat_pc, chat_reply>>
       ELSE chat_reply' = "HTTPException" /\ chat_pc' = "done"
    /\ UNCHANGED <<conversation_history, asked, answered, question, history_key,
                   seen, history_for_prompt, chat_peer>>
    /\ ChatOnly

\* the event loop resumes the other request
SwitchChat ==
    /\ chat_peer' = [chat_pc |-> chat_pc, question |-> question,
                     history_key |-> history_key, seen |-> seen,
                     history_for_prompt |-> history_for_prompt,
                     chat_attempt |-> chat_attempt, chat_reply |-> chat_reply]
    /\ chat_pc' = chat_peer.chat_pc
    /\ question' = chat_peer.question
    /\ history_key' = chat_peer.history_key
    /\ seen' = chat_peer.seen
    /\ history_for_prompt' = chat_peer.history_for_prompt
    /\ chat_attempt' = chat_peer.chat_attempt
    /\ chat_reply' = chat_peer.chat_reply
    /\ UNCHANGED <<conversation_history, asked, answered>>
    /\ ChatOnly

NextChat ==
    \/ ChatArrives
    \/ ChatContextFails
    \/ ChatNoCommits
    \/ ChatAnswers
    \/ ChatGenerationFails
    \/ ChatQuota
    \/ ChatRetryAnswers
    \/ ChatRetryFails
    \/ ChatRetryQuota
    \/ SwitchChat

SpecChat == InitChat /\ [][NextChat]_vars

----------------------------------------------------------------------------
(* Properties of the conversation history                                   *)

\* the most recent answered requests of a key, as many as an entry keeps
LatestAnswered(k) ==
    {q \in answered[k] : Cardinality({r \in answered[k] : r > q}) < history_limit}

\* C30: every entry of conversation_history holds at most 5 pairs: the pairs
\* of the most recent requests of its key whose answer was generated, in the
\* order the requests were received, so a request that failed has no pair in
\* it; and the prompt of a request holds the latest 3 pairs of the entry as it
\* was when the prompt was built, and no others.
HistoryKeepsLatestPairs ==
    /\ \A k \in HistoryKeys :
           LET entry == EntryOf(k)
           IN /\ Len(entry) <= history_limit
              /\ {entry[i].question : i \in 1..Len(entry)} = LatestAnswered(k)
              /\ \A i \in 1..Len(entry) : entry[i] = Pair(entry[i].question)
              /\ \A i \in 1..(Len(entry) - 1) : entry[i].question < entry[i + 1].question
    /\ chat_attempt > 0 =>
           /\ Len(history_for_prompt) <= prompt_pairs
           /\ Len(seen) >= prompt_pairs => Len(history_for_prompt) = prompt_pairs
           /\ \A i \in 1..Len(history_for_prompt) :
                  history_for_prompt[i] =
                      seen[Len(seen) - Len(history_for_prompt) + i]

====
